---- MODULE Spec2Model ----
(***************************************************************************)
(* Manipulator-map runtime (wm_manipulator_map.c): interaction state       *)
(* machine, hit testing, draw pipeline and deferred type updates.          *)
(*                                                                         *)
(* One map with NGroups groups and NMprs manipulators is modelled.         *)
(* Pointers are manipulator ids, NULL is 0.  Every handler of the file is  *)
(* an operator from a state record s = [ctx, mprs, upd, out, crashed] to   *)
(* the state record it returns with; the actions apply one handler each.   *)
(***************************************************************************)
EXTENDS Integers, Sequences, FiniteSets, TLC

\* ---------------------------------------------------------------- bounds
NGroups == 2
NMprs == 3
MaxPart == 1
NGroupTypes == 3

NULL == 0
Groups == 1..NGroups
Mprs == 1..NMprs
MprOrNull == 0..NMprs
Parts == 0..MaxPart
GroupTypes == 1..NGroupTypes

VARIABLES
    mgroups,        \* group -> [flag, poll, refresh, draw_prepare, drawsteps]
    manipulators,   \* manipulator -> type hooks, flag, state, highlight_part, ...
    ghash_order,    \* iteration order of the name hash (a permutation of Mprs)
    mmap_context,   \* [highlight, modal, selected, selected_alloc, selected_len]
    update_flag,    \* mmap->update_flag (MANIPULATORMAP_REFRESH or 0)
    crashed,        \* the process died (undefined behaviour outcome)
    out,            \* calls made to the collaborators by the last handler
    last,           \* the last handler call: name, arguments, return value
    prev,           \* name of the handler call before the last one
    pre,            \* modal slot, modal bits and interaction data before the last call
    observe,        \* which of out, last, prev, pre this behaviour records
    find,           \* inputs and result of the last wm_manipulatormap_highlight_find
    draw,           \* arguments, assembled list and final list of the last draw call
    refreshed,      \* the groups whose refresh hook ran since the map was last tagged
    manipulatormaptypes,        \* the registry: list of map types, head first
    grouptypes,                 \* group type -> [type_update_flag]
    wm_mmap_type_update_flag,   \* the global deferred-update flag
    tagged,         \* group type -> its last two tags since the last flush that ran
    reg_ret         \* argument and result of the last find, ensure or new_from_type

mapvars == <<mgroups, manipulators, ghash_order, mmap_context, update_flag,
             crashed, out, last, prev, pre, observe, find, draw,
             refreshed>>

regvars == <<manipulatormaptypes, grouptypes, wm_mmap_type_update_flag, tagged,
             reg_ret>>

\* ------------------------------------------------------------ flag names
MANIPULATORMAP_REFRESH == 1

STATE_HIGHLIGHT == "HIGHLIGHT"
STATE_MODAL == "MODAL"
STATE_SELECT == "SELECT"

GROUPTYPE_3D == "3D"
GROUPTYPE_SELECT == "SELECT"
GROUPTYPE_DEPTH_3D == "DEPTH_3D"
GROUPTYPE_DRAW_MODAL_ALL == "DRAW_MODAL_ALL"

SEL_SELECT == "SEL_SELECT"
SEL_DESELECT == "SEL_DESELECT"

\* ---------------------------------------------------------- map topology
\* The groups' manipulator lists: manipulator m belongs to group
\* parent_mgroup(m); a group's list holds its manipulators by ascending id.
parent_mgroup(m) == ((m - 1) % NGroups) + 1

GroupManipulators(g) ==
    SelectSeq([i \in 1..NMprs |-> i], LAMBDA m : parent_mgroup(m) = g)

RECURSIVE Flatten(_)
Flatten(ss) == IF ss = <<>> THEN <<>> ELSE Head(ss) \o Flatten(Tail(ss))

Range(f) == {f[i] : i \in DOMAIN f}

Ev(name, m) == [ev |-> name, m |-> m]

Emit(s, e) == [s EXCEPT !.out = Append(@, e)]

\* An event emitted only when the context is present (if (C) ...).
EmitIf(s, cond, e) == IF cond THEN Emit(s, e) ELSE s

\* ------------------------------------------------------- state records
Cur == [ctx |-> mmap_context, mprs |-> manipulators, upd |-> update_flag,
        out |-> <<>>, crashed |-> FALSE]

Commit(s) ==
    /\ mmap_context' = s.ctx
    /\ manipulators' = s.mprs
    /\ update_flag' = s.upd
    /\ crashed' = s.crashed

NoCall == [op |-> "none", mpr |-> NULL, part |-> 0, C |-> FALSE, action |-> "",
           ret |-> FALSE]

Call(op, mpr, part, C, action, ret) ==
    [op |-> op, mpr |-> mpr, part |-> part, C |-> C, action |-> action, ret |-> ret]

ModalSnapshot(ctx, mprs) ==
    [modal |-> ctx.modal,
     bits |-> [m \in Mprs |-> STATE_MODAL \in mprs[m].state],
     data |-> [m \in Mprs |-> mprs[m].interaction_data]]

\* ------------------------------------------------- wm_manipulatormap_highlight_set
HighlightSetClearOld(s) ==
    LET h == s.ctx.highlight IN
    IF h # NULL
    THEN [s EXCEPT !.mprs[h].state = @ \ {STATE_HIGHLIGHT},
                   !.mprs[h].highlight_part = 0]
    ELSE s

HighlightSetSkip_NotForNull(s, mpr, part) ==
    mpr # NULL /\ mpr = s.ctx.highlight /\ part = s.mprs[mpr].highlight_part

HighlightSetSkip(s, mpr, part) ==
    ~((mpr # s.ctx.highlight) \/ (mpr # NULL /\ part # s.mprs[mpr].highlight_part))

HighlightSet_KeepOld(s, C, mpr, part) ==
    IF ~HighlightSetSkip(s, mpr, part)
    THEN LET s2 == [s EXCEPT !.ctx.highlight = mpr]
             s3 == IF mpr # NULL
                   THEN EmitIf([s2 EXCEPT !.mprs[mpr].state = @ \cup {STATE_HIGHLIGHT},
                                          !.mprs[mpr].highlight_part = part],
                               C /\ s2.mprs[mpr].type.cursor_get, Ev("cursor_set", mpr))
                   ELSE EmitIf(s2, C, Ev("cursor_set", NULL))
         IN EmitIf(s3, C, Ev("region_tag_redraw", NULL))
    ELSE s

HighlightSet(s, C, mpr, part) ==
    IF ~HighlightSetSkip(s, mpr, part)
    THEN LET s1 == HighlightSetClearOld(s)
             s2 == [s1 EXCEPT !.ctx.highlight = mpr]
             s3 == IF mpr # NULL
                   THEN EmitIf([s2 EXCEPT !.mprs[mpr].state = @ \cup {STATE_HIGHLIGHT},
                                          !.mprs[mpr].highlight_part = part],
                               C /\ s2.mprs[mpr].type.cursor_get, Ev("cursor_set", mpr))
                   ELSE EmitIf(s2, C, Ev("cursor_set", NULL))
         IN EmitIf(s3, C, Ev("region_tag_redraw", NULL))
    ELSE s

\* ----------------------------------------------------- wm_manipulatormap_modal_set
\* The manipulator type's invoke hook: it may allocate the manipulator's
\* interaction data (alloc).
InvokeHook_IgnoreModal(s, mpr, alloc) ==
    IF s.mprs[mpr].type.invoke
    THEN Emit([s EXCEPT !.mprs[mpr].interaction_data = @ \/ alloc], Ev("invoke", mpr))
    ELSE s

InvokeHook(s, mpr, alloc) ==
    LET t == s.mprs[mpr].type IN
    IF t.invoke /\ (t.modal \/ s.mprs[mpr].custom_modal)
    THEN Emit([s EXCEPT !.mprs[mpr].interaction_data = @ \/ alloc], Ev("invoke", mpr))
    ELSE s

\* else-branch of wm_manipulatormap_modal_set: deactivate the modal target.
ModalSetDeactivate(s, C) ==
    LET mpr == s.ctx.modal
        s1 == IF mpr # NULL
              THEN [s EXCEPT !.mprs[mpr].state = @ \ {STATE_MODAL},
                             !.mprs[mpr].interaction_data = FALSE]
              ELSE s
        s2 == [s1 EXCEPT !.ctx.modal = NULL]
    IN IF C
       THEN Emit(Emit(Emit(s2, Ev("cursor_grab_disable", NULL)),
                      Ev("region_tag_redraw", NULL)), Ev("event_add_mousemove", NULL))
       ELSE s2

\* WM_operator_name_call_ptr: the bound operator either keeps running modal
\* ("running": the map is left alone) or ends synchronously and clears the
\* map's modal slot through a nested modal-set with the null sentinel
\* ("cleared").
OperatorCall(s, mpr, opres) ==
    LET s1 == Emit(s, Ev("operator_call", mpr)) IN
    IF opres = "cleared" THEN ModalSetDeactivate(s1, TRUE) ELSE s1

ModalSetRollback(s, mpr) ==
    IF s.ctx.modal = NULL
    THEN [s EXCEPT !.mprs[mpr].state = @ \ {STATE_MODAL},
                   !.mprs[mpr].interaction_data = FALSE]
    ELSE s

ModalSetActivate(s, mpr, alloc, opres) ==
    LET s1 == [s EXCEPT !.mprs[mpr].state = @ \cup {STATE_MODAL},
                        !.ctx.modal = mpr]
    IN IF s1.mprs[mpr].op_data
       THEN ModalSetRollback(OperatorCall(InvokeHook(s1, mpr, alloc), mpr, opres), mpr)
       ELSE Emit(InvokeHook(s1, mpr, alloc), Ev("cursor_grab_enable", NULL))

ModalSet(s, C, mpr, alloc, opres) ==
    IF mpr # NULL /\ C
    THEN ModalSetActivate(s, mpr, alloc, opres)
    ELSE ModalSetDeactivate(s, C)

\* ----------------------------------------------- WM_manipulatormap_manipulator_hash_new
\* Group and manipulator traversal order of the map.
Traversal == Flatten([g \in 1..NGroups |-> GroupManipulators(g)])

TraversalIndex(m) == CHOOSE i \in 1..Len(Traversal) : Traversal[i] = m

\* poll callback handed to the hash by select-all.
manipulator_selectable_poll(s, m) ==
    GROUPTYPE_SELECT \in mgroups[parent_mgroup(m)].flag

\* The manipulators the collecting loop inserts into the hash.
HashCollected(s, include_hidden) ==
    {m \in Mprs : /\ mgroups[parent_mgroup(m)].poll
                  /\ (include_hidden \/ ~s.mprs[m].hidden)
                  /\ manipulator_selectable_poll(s, m)}

\* The name-keyed hash: one entry per name (the first one inserted), iterated
\* in the hash's own order.
GHashEntries(s, collected) ==
    LET kept == {m \in collected :
                    ~\E k \in collected : /\ s.mprs[k].name = s.mprs[m].name
                                          /\ TraversalIndex(k) < TraversalIndex(m)}
    IN SelectSeq(ghash_order, LAMBDA m : m \in kept)

HashNew(s, include_hidden) == GHashEntries(s, HashCollected(s, include_hidden))

\* ----------------------------------------------- wm_manipulatormap_selected_clear
SelectedClear_KeepLen(s) ==
    [s EXCEPT !.ctx.selected = <<>>, !.ctx.selected_alloc = FALSE]

SelectedClear(s) ==
    [s EXCEPT !.ctx.selected = <<>>, !.ctx.selected_alloc = FALSE,
              !.ctx.selected_len = 0]

\* ------------------------------------------------- wm_manipulatormap_deselect_all
RECURSIVE DeselectLoop(_, _)
DeselectLoop(s, i) ==
    IF i > s.ctx.selected_len THEN s
    ELSE LET m == s.ctx.selected[i] IN
         DeselectLoop([s EXCEPT !.mprs[m].state = @ \ {STATE_SELECT},
                                !.ctx.selected[i] = NULL], i + 1)

DeselectAll_KeepBits(s) ==
    IF ~s.ctx.selected_alloc \/ s.ctx.selected_len = 0
    THEN [s |-> s, ret |-> FALSE]
    ELSE [s |-> SelectedClear(s), ret |-> TRUE]

DeselectAll(s) ==
    IF ~s.ctx.selected_alloc \/ s.ctx.selected_len = 0
    THEN [s |-> s, ret |-> FALSE]
    ELSE [s |-> SelectedClear(DeselectLoop(s, 1)), ret |-> TRUE]

\* ------------------------------------------ wm_manipulatormap_select_all_intern
RECURSIVE SelectLoop(_, _, _, _)
SelectLoop(s, C, hash, i) ==
    IF i > Len(hash) THEN s
    ELSE LET m == hash[i]
             s1 == [s EXCEPT !.mprs[m].state = @ \cup {STATE_SELECT}]
             s2 == IF s1.mprs[m].type.select THEN Emit(s1, Ev("select", m)) ELSE s1
         IN SelectLoop([s2 EXCEPT !.ctx.selected[i] = m], C, hash, i + 1)

\* "changed" as the loop computes it: some collected manipulator did not
\* carry the selection bit yet.
SelectChanged_Always(s, hash) == TRUE

SelectChanged(s, hash) ==
    \E i \in 1..Len(hash) : STATE_SELECT \notin s.mprs[hash[i]].state

\* (*sel)[0] after the loop.  With an empty hash the array has length zero
\* and the read is out of bounds: the slot then holds no manipulator and the
\* process dies (ub = NULL), or it holds a stale pointer to some manipulator
\* of the map (ub).
SelectHighlightFirst(s, C, ub) ==
    IF s.ctx.selected_len > 0
    THEN HighlightSet(s, C, s.ctx.selected[1],
                      s.mprs[s.ctx.selected[1]].highlight_part)
    ELSE IF ub = NULL
         THEN [s EXCEPT !.crashed = TRUE]
         ELSE HighlightSet(s, C, ub, s.mprs[ub].highlight_part)

SelectAllIntern(s, C, ub) ==
    LET hash == HashNew(s, TRUE)
        \* MEM_reallocN to the exact size: always an allocation, of length
        \* zero when the hash is empty; the slots are filled by the loop
        s1 == [s EXCEPT !.ctx.selected_len = Len(hash),
                        !.ctx.selected_alloc = TRUE,
                        !.ctx.selected = [i \in 1..Len(hash) |-> NULL]]
        s2 == SelectLoop(s1, C, hash, 1)
    IN [s |-> SelectHighlightFirst(s2, C, ub), ret |-> SelectChanged(s, hash)]

\* ------------------------------------------------- WM_manipulatormap_select_all
SelectAll_AlwaysMousemove(s, C, action, ub) ==
    LET r == IF action = SEL_SELECT THEN SelectAllIntern(s, C, ub) ELSE DeselectAll(s)
    IN [s |-> Emit(r.s, Ev("event_add_mousemove", NULL)), ret |-> r.ret]

SelectAll(s, C, action, ub) ==
    LET r == IF action = SEL_SELECT THEN SelectAllIntern(s, C, ub) ELSE DeselectAll(s)
    IN [s |-> IF r.ret /\ ~r.s.crashed
              THEN Emit(r.s, Ev("event_add_mousemove", NULL)) ELSE r.s,
        ret |-> r.ret]

\* --------------------------------------- wm_manipulatormaps_handled_modal_update
\* region: the handler's op_region is missing ("none"), has no map ("nomap")
\* or has this map ("map"); modal_running: handler->op != NULL; type_match:
\* the modal manipulator's bound operator type is the handler's operator type.
HandledModalHook(s, type_match) ==
    LET mpr == s.ctx.modal IN
    IF mpr # NULL /\ s.mprs[mpr].op_data /\ type_match
    THEN IF s.mprs[mpr].custom_modal THEN Emit(s, Ev("custom_modal", mpr))
         ELSE IF s.mprs[mpr].type.modal THEN Emit(s, Ev("modal", mpr))
         ELSE s
    ELSE s

HandledModalUpdate_KeepModal(s, region, modal_running, type_match) ==
    IF region # "map" THEN s
    ELSE LET s1 == Emit(s, Ev("handler_context", NULL))
             s2 == IF modal_running
                   THEN HandledModalHook(s1, type_match)
                   ELSE HighlightSet(s1, TRUE, NULL, 0)
         IN Emit(s2, Ev("context_restore", NULL))

HandledModalUpdate_NoSkip(s, region, modal_running, type_match) ==
    LET s1 == Emit(s, Ev("handler_context", NULL))
        s2 == IF modal_running
              THEN HandledModalHook(s1, type_match)
              ELSE ModalSet(HighlightSet(s1, TRUE, NULL, 0), TRUE, NULL, FALSE,
                            "running")
    IN Emit(s2, Ev("context_restore", NULL))

HandledModalUpdate(s, region, modal_running, type_match) ==
    IF region # "map" THEN s
    ELSE LET s1 == Emit(s, Ev("handler_context", NULL))
             s2 == IF modal_running
                   THEN HandledModalHook(s1, type_match)
                   ELSE ModalSet(HighlightSet(s1, TRUE, NULL, 0), TRUE, NULL, FALSE,
                                 "running")
         IN Emit(s2, Ev("context_restore", NULL))


\* ------------------------------------------------ wm_manipulatormap_highlight_find
\* wm_manipulatorgroup_is_visible: the group has no poll or its poll passes.
GroupIsVisible(g) == mgroups[g].poll

\* wm_manipulatorgroup_intersectable_manipulators_to_list: the group's
\* manipulators that are not hidden, in the group's order.
IntersectableManipulators(s, g) ==
    SelectSeq(GroupManipulators(g), LAMBDA m : ~s.mprs[m].hidden)

NoHit2D == [m |-> NULL, part |-> 0]

\* What wm_manipulatorgroup_find_intersected_mainpulator can report for group
\* g: no hit, or one of the group's manipulators that are not hidden, with
\* the part of it that was hit.
Hits2D(s, g) ==
    {NoHit2D} \cup {[m |-> m, part |-> p] : m \in Range(IntersectableManipulators(s, g)),
                                            p \in 1..MaxPart}

\* The reports of the 2D tests of groups 1..g for one event: a group that is
\* invisible or 3D is not tested.
RECURSIVE Hit2DInputs(_, _)
Hit2DInputs(s, g) ==
    IF g = 0 THEN {<<>>}
    ELSE {Append(h, x) :
             h \in Hit2DInputs(s, g - 1),
             x \in IF mgroups[g].poll /\ GROUPTYPE_3D \notin mgroups[g].flag
                   THEN Hits2D(s, g) ELSE {NoHit2D}}

NoPick == [idx |-> 0, part |-> 0]

\* The low 8 bits of a hit id hold the part (ret & 255).
PartMask == 255

\* What one selection pass over the candidate list can report: nothing, or
\* the candidate at list position idx with the part id its draw_select
\* loaded: one of the parts the manipulators have, or the largest one the
\* low 8 bits hold.
Picks(list) == {NoPick} \cup {[idx |-> i, part |-> p] :
                                i \in 1..Len(list), p \in Parts \cup {PartMask}}

\* manipulator_draw_select_3D_loop: the id base of the i-th candidate is
\* selectionbase << 8, selectionbase counting from 0.  The shift stays
\* within an int for every list of fewer than 2^23 candidates.
SelectionBase_Shift7(i) == (i - 1) * 128

SelectionBase(i) == (i - 1) * 256

\* manipulator_find_intersected_3d: the list index ret >> 8 and the part
\* ret & 255 of a hit id.
HitIndex(id) == id \div (PartMask + 1)

HitPart(id) == id % (PartMask + 1)

\* manipulator_find_intersected_3d_intern: the nearest hit's id, or -1.
FindIntersected3DIntern(pick) ==
    IF pick.idx = 0 THEN -1 ELSE SelectionBase(pick.idx) + pick.part

\* The hotspot of manipulator_find_intersected_3d (14.0f) in tenths of a
\* pixel, and the half-widths 0.5f * hotspot and 0.2f * hotspot of its passes.
hotspot == 140

HotspotCoarse == (5 * hotspot) \div 10

HotspotRefined == (2 * hotspot) \div 10

\* manipulator_find_intersected_3d: [mpr, part] of the pick; coarse and
\* refined are what the passes at 0.5 * hotspot and 0.2 * hotspot report,
\* passes the calls of manipulator_find_intersected_3d_intern made.
FindIntersected3D_CoarseWins(list, coarse, refined) ==
    LET ret == FindIntersected3DIntern(coarse) IN
    IF ret # -1
    THEN [mpr |-> list[HitIndex(ret) + 1], part |-> HitPart(ret),
          passes |-> <<Ev("find_intersected_3d_intern", HotspotCoarse),
                       Ev("find_intersected_3d_intern", HotspotRefined)>>]
    ELSE [mpr |-> NULL, part |-> 0,
          passes |-> <<Ev("find_intersected_3d_intern", HotspotCoarse)>>]

FindIntersected3D(list, coarse, refined) ==
    LET ret == FindIntersected3DIntern(coarse) IN
    IF ret # -1
    THEN LET retsec == FindIntersected3DIntern(refined)
             id == IF retsec # -1 THEN retsec ELSE ret
         IN [mpr |-> list[HitIndex(id) + 1], part |-> HitPart(id),
             passes |-> <<Ev("find_intersected_3d_intern", HotspotCoarse),
                          Ev("find_intersected_3d_intern", HotspotRefined)>>]
    ELSE [mpr |-> NULL, part |-> 0,
          passes |-> <<Ev("find_intersected_3d_intern", HotspotCoarse)>>]

\* The loop over the groups: acc = [mpr, part, list] so far.  A visible 3D
\* group adds its candidates; a visible 2D group is tested and a hit ends
\* the loop.
RECURSIVE HighlightFindLoop(_, _, _, _)
HighlightFindLoop(s, hit2d, g, acc) ==
    IF g > NGroups THEN acc
    ELSE IF ~GroupIsVisible(g) THEN HighlightFindLoop(s, hit2d, g + 1, acc)
    ELSE IF GROUPTYPE_3D \in mgroups[g].flag
    THEN HighlightFindLoop(s, hit2d, g + 1,
             [acc EXCEPT !.list = @ \o IntersectableManipulators(s, g)])
    ELSE IF hit2d[g].m # NULL
    THEN [acc EXCEPT !.mpr = hit2d[g].m, !.part = hit2d[g].part]
    ELSE HighlightFindLoop(s, hit2d, g + 1, [acc EXCEPT !.mpr = NULL])

\* What the loop returns with: the 2D result so far and the 3D candidates.
HighlightFindGroups(s, hit2d, part_in) ==
    HighlightFindLoop(s, hit2d, 1, [mpr |-> NULL, part |-> part_in, list |-> <<>>])

\* After the loop: a non-empty candidate list is picked and its result
\* replaces the loop's.
HighlightFindResult(acc, coarse, refined) ==
    IF acc.list # <<>>
    THEN FindIntersected3D(acc.list, coarse, refined)
    ELSE [mpr |-> acc.mpr, part |-> acc.part, passes |-> <<>>]

HighlightFind(s, hit2d, coarse, refined, part_in) ==
    HighlightFindResult(HighlightFindGroups(s, hit2d, part_in), coarse, refined)

\* ------------------------------------------------------ WM_manipulatormap_draw
IS_VISIBLE_UPDATE == "UPDATE"
IS_VISIBLE_DRAW == "DRAW"

DrawSteps == {"2D", "3D"}

\* WM_manipulatormap_tag_refresh; update_flag is 0 or MANIPULATORMAP_REFRESH,
\* and either of them or-ed with MANIPULATORMAP_REFRESH gives the latter.
TagRefresh(s, mmap) ==
    IF mmap # "null" THEN [s EXCEPT !.upd = MANIPULATORMAP_REFRESH] ELSE s

manipulatormap_tag_updated(s) == [s EXCEPT !.upd = 0]

\* wm_manipulator_is_visible: nothing for a hidden manipulator, else the
\* update/draw bits derived for the manipulator.
wm_manipulator_is_visible(s, m) ==
    IF s.mprs[m].hidden THEN {} ELSE s.mprs[m].is_visible

\* wm_manipulatorgroup_is_visible_in_drawstep: the draw-step filter.
GroupIsVisibleInDrawstep(g, drawstep) == drawstep \in mgroups[g].drawsteps

\* manipulator_prepare_drawing on d = [s, list, ret]: the list is the
\* caller's draw_manipulators, ret the value returned.
ManipulatorPrepareDrawing_AddTail(d, mpr) ==
    LET do_draw == wm_manipulator_is_visible(d.s, mpr)
        s1 == EmitIf(d.s, IS_VISIBLE_UPDATE \in do_draw,
                     Ev(IF d.s.upd = MANIPULATORMAP_REFRESH
                        THEN "update_refresh" ELSE "update", mpr))
        list1 == IF IS_VISIBLE_DRAW \in do_draw THEN Append(d.list, mpr) ELSE d.list
    IN IF do_draw = {}
       THEN [d EXCEPT !.ret = FALSE]
       ELSE [s |-> s1, list |-> list1, ret |-> TRUE]

ManipulatorPrepareDrawing(d, mpr) ==
    LET do_draw == wm_manipulator_is_visible(d.s, mpr)
        s1 == EmitIf(d.s, IS_VISIBLE_UPDATE \in do_draw,
                     Ev(IF d.s.upd = MANIPULATORMAP_REFRESH
                        THEN "update_refresh" ELSE "update", mpr))
        list1 == IF IS_VISIBLE_DRAW \in do_draw THEN <<mpr>> \o d.list ELSE d.list
    IN IF do_draw = {}
       THEN [d EXCEPT !.ret = FALSE]
       ELSE [s |-> s1, list |-> list1, ret |-> TRUE]

RECURSIVE PrepareManipulators(_, _)
PrepareManipulators(d, ms) ==
    IF ms = <<>> THEN d
    ELSE PrepareManipulators(ManipulatorPrepareDrawing(d, Head(ms)), Tail(ms))

\* One pass of the group loop of manipulatormap_prepare_drawing.
PrepareGroup(d, g, drawstep) ==
    IF ~GroupIsVisibleInDrawstep(g, drawstep) \/ ~GroupIsVisible(g)
    THEN d
    ELSE LET s1 == Emit(d.s, Ev("ensure_initialized", g))
             s2 == EmitIf(s1, d.s.upd = MANIPULATORMAP_REFRESH /\ mgroups[g].refresh,
                          Ev("refresh", g))
             s3 == EmitIf(s2, mgroups[g].draw_prepare, Ev("draw_prepare", g))
         IN PrepareManipulators([d EXCEPT !.s = s3], GroupManipulators(g))

RECURSIVE PrepareGroups(_, _, _)
PrepareGroups(d, g, drawstep) ==
    IF g > NGroups THEN d
    ELSE PrepareGroups(PrepareGroup(d, g, drawstep), g + 1, drawstep)

\* manipulatormap_prepare_drawing; mmap is "null", "empty" (a map without
\* groups) or "map" (the map modelled).
ManipulatormapPrepareDrawing_NoModalPath(s, mmap, drawstep) ==
    LET d0 == [s |-> s, list |-> <<>>, ret |-> FALSE]
    IN IF mmap # "map" THEN d0
       ELSE LET d1 == PrepareGroups(d0, 1, drawstep) IN
            [d1 EXCEPT !.s = manipulatormap_tag_updated(d1.s)]

ManipulatormapPrepareDrawing(s, mmap, drawstep) ==
    LET d0 == [s |-> s, list |-> <<>>, ret |-> FALSE]
        mpr_modal == s.ctx.modal
    IN IF mmap # "map" THEN d0
       ELSE IF /\ mpr_modal # NULL
               /\ GROUPTYPE_DRAW_MODAL_ALL \notin mgroups[parent_mgroup(mpr_modal)].flag
       THEN LET d1 == ManipulatorPrepareDrawing(d0, mpr_modal) IN
            IF d1.ret THEN [d1 EXCEPT !.s = manipulatormap_tag_updated(d1.s)] ELSE d1
       ELSE LET d1 == PrepareGroups(d0, 1, drawstep) IN
            [d1 EXCEPT !.s = manipulatormap_tag_updated(d1.s)]

FreeLink_Keep(list, link) == list

\* BLI_freelinkN: the list without the link (a manipulator has at most one
\* link in a draw list).
FreeLink(list, link) == SelectSeq(list, LAMBDA x : x # link)

\* The loop of manipulators_draw_list over d = [s, list, is_depth_prev];
\* links is the chain still to visit (link, link_next, ...).
RECURSIVE DrawLinks(_, _)
DrawLinks(d, links) ==
    IF links = <<>> THEN d
    ELSE LET mpr == Head(links)
             is_depth == /\ GROUPTYPE_DEPTH_3D \in mgroups[parent_mgroup(mpr)].flag
                         /\ STATE_HIGHLIGHT \notin d.s.mprs[mpr].state
             s1 == EmitIf(d.s, is_depth # d.is_depth_prev,
                          Ev(IF is_depth THEN "glEnable_depth" ELSE "glDisable_depth",
                             NULL))
             s2 == Emit(s1, Ev("draw", mpr))
         IN DrawLinks([s |-> s2, list |-> FreeLink(d.list, mpr),
                       is_depth_prev |-> is_depth], Tail(links))

ManipulatorsDrawList_DepthLeftOn(s, mmap, draw_manipulators, draw_multisample) ==
    IF mmap # "map" THEN [s |-> s, list |-> draw_manipulators]
    ELSE LET s1 == EmitIf(s, draw_multisample, Ev("glEnable_multisample", NULL))
             d == DrawLinks([s |-> s1, list |-> draw_manipulators,
                             is_depth_prev |-> FALSE], draw_manipulators)
             s3 == EmitIf(d.s, draw_multisample, Ev("glDisable_multisample", NULL))
         IN [s |-> s3, list |-> d.list]

ManipulatorsDrawList(s, mmap, draw_manipulators, draw_multisample) ==
    IF mmap # "map" THEN [s |-> s, list |-> draw_manipulators]
    ELSE LET s1 == EmitIf(s, draw_multisample, Ev("glEnable_multisample", NULL))
             d == DrawLinks([s |-> s1, list |-> draw_manipulators,
                             is_depth_prev |-> FALSE], draw_manipulators)
             s2 == EmitIf(d.s, d.is_depth_prev, Ev("glDisable_depth", NULL))
             s3 == EmitIf(s2, draw_multisample, Ev("glDisable_multisample", NULL))
         IN [s |-> s3, list |-> d.list]

\* WM_manipulatormap_draw: the state it returns with, the list assembled and
\* the list left when it returns.
ManipulatormapDraw(s, mmap, drawstep, draw_multisample) ==
    LET p == ManipulatormapPrepareDrawing(s, mmap, drawstep)
        d == ManipulatorsDrawList(p.s, mmap, p.list, draw_multisample)
    IN [s |-> d.s, assembled |-> p.list, list |-> d.list]

\* -------------------------------------------------------- wmManipulatorMapType
\* Flag words are sets of bit positions: x | f is a union, x & ~f a
\* difference, and x & f is non-zero when the two meet.
GLOBAL_UPDATE_INIT == {0}
GLOBAL_UPDATE_REMOVE == {1}

UPDATE_INIT == {0}
UPDATE_REMOVE == {1}
KEYMAP_INIT == {2}

\* The (space, region) pairs map types are asked for: two editors' windows.
SpaceIds == <<"VIEW3D", "SEQ">>

Params == [spaceid : Range(SpaceIds), regionid : {"WINDOW"}]

NoParams == [spaceid |-> "", regionid |-> ""]

\* The map type a group type's registration belongs to (wgt->mmap_params).
wgt_mmap_params(wgt) ==
    [spaceid |-> SpaceIds[((wgt - 1) % Len(SpaceIds)) + 1], regionid |-> "WINDOW"]

Reg == [types |-> manipulatormaptypes, wgts |-> grouptypes,
        flag |-> wm_mmap_type_update_flag, out |-> <<>>]

CfgEv(name, mmap_params, wgt) == [ev |-> name, mmap_type |-> mmap_params, m |-> wgt]

\* WM_manipulatormaptype_find: the position of the first matching type in
\* the list, 0 for NULL.
MaptypeFind(types, mmap_params) ==
    LET match == {i \in DOMAIN types : /\ types[i].spaceid = mmap_params.spaceid
                                       /\ types[i].regionid = mmap_params.regionid}
    IN IF match = {} THEN 0 ELSE CHOOSE i \in match : \A j \in match : i <= j

\* WM_manipulatormaptype_ensure.
MaptypeEnsure_AlwaysCreate(r, mmap_params) ==
    [r EXCEPT !.types =
        <<[spaceid |-> mmap_params.spaceid, regionid |-> mmap_params.regionid,
           type_update_flag |-> {}, grouptype_refs |-> <<>>]>> \o @]

MaptypeEnsure(r, mmap_params) ==
    IF MaptypeFind(r.types, mmap_params) # 0 THEN r
    ELSE [r EXCEPT !.types =
             <<[spaceid |-> mmap_params.spaceid, regionid |-> mmap_params.regionid,
                type_update_flag |-> {}, grouptype_refs |-> <<>>]>> \o @]

\* WM_manipulatormap_new_from_type: the map type is ensured; the map made
\* for it is zeroed by MEM_callocN (no highlight, no modal manipulator, no
\* selection), tagged for refresh, and one group is requested per group type
\* of the map type's list, in the list's order.  type is the map type's
\* position in the registry's list.
NoMap == [type |-> 0, update_flag |-> 0, highlight |-> NULL, modal |-> NULL,
          selected |-> <<>>, selected_len |-> 0, groups |-> <<>>]

NoRet == [mmap_params |-> NoParams, mmap_type |-> 0, mmap |-> NoMap]

NewFromType_Untagged(r, mmap_params) ==
    LET r1 == MaptypeEnsure(r, mmap_params)
        mmap_type == MaptypeFind(r1.types, mmap_params)
    IN [r |-> r1,
        mmap |-> [NoMap EXCEPT !.type = mmap_type,
                               !.groups = r1.types[mmap_type].grouptype_refs]]

NewFromType(r, mmap_params) ==
    LET r1 == MaptypeEnsure(r, mmap_params)
        mmap_type == MaptypeFind(r1.types, mmap_params)
    IN [r |-> r1,
        mmap |-> [NoMap EXCEPT !.type = mmap_type,
                               !.update_flag = MANIPULATORMAP_REFRESH,
                               !.groups = r1.types[mmap_type].grouptype_refs]]

\* WM_manipulatormaptype_group_link: a reference to the group type is added
\* at the tail of the map type's list.
GroupLink(r, i, wgt) == [r EXCEPT !.types[i].grouptype_refs = Append(@, wgt)]

\* WM_manipulatormaptype_group_unlink: the reference is taken off the map
\* type's list and freed.
GroupUnlink(r, i, wgt) ==
    [r EXCEPT !.types[i].grouptype_refs = SelectSeq(@, LAMBDA x : x # wgt),
              !.out = Append(@, CfgEv("unlink", [spaceid |-> r.types[i].spaceid,
                                                regionid |-> r.types[i].regionid],
                                      wgt))]

\* WM_manipulatorconfig_update_tag_init on the map type at position i.
TagInit(r, i, wgt) ==
    [r EXCEPT !.types[i].type_update_flag = @ \cup (UPDATE_INIT \cup KEYMAP_INIT),
              !.wgts[wgt].type_update_flag = @ \cup (UPDATE_INIT \cup KEYMAP_INIT),
              !.flag = @ \cup GLOBAL_UPDATE_INIT]

\* WM_manipulatorconfig_update_tag_remove on the map type at position i.
TagRemove(r, i, wgt) ==
    [r EXCEPT !.types[i].type_update_flag = @ \cup UPDATE_REMOVE,
              !.wgts[wgt].type_update_flag = @ \cup UPDATE_REMOVE,
              !.flag = @ \cup GLOBAL_UPDATE_REMOVE]

\* ------------------------------------------------ WM_manipulatorconfig_update
\* The inner loop of the removal pass: refs is the chain still to visit
\* (wgt_ref, wgt_ref_next, ...).
RECURSIVE UnlinkRefs(_, _, _)
UnlinkRefs(r, i, refs) ==
    IF refs = <<>> THEN r
    ELSE UnlinkRefs(GroupUnlink(r, i, Head(refs)), i, Tail(refs))

RECURSIVE RemoveLoop(_, _)
RemoveLoop(r, i) ==
    IF i > Len(r.types) THEN r
    ELSE IF r.types[i].type_update_flag \cap GLOBAL_UPDATE_REMOVE # {}
    THEN LET r1 == [r EXCEPT !.types[i].type_update_flag = @ \ UPDATE_REMOVE]
         IN RemoveLoop(UnlinkRefs(r1, i, r1.types[i].grouptype_refs), i + 1)
    ELSE RemoveLoop(r, i + 1)

\* The body of the inner loop of the init pass for one reference.
InitRef(r, i, wgt) ==
    LET keymap == r.wgts[wgt].type_update_flag \cap KEYMAP_INIT # {}
        r1 == IF keymap
              THEN [r EXCEPT !.wgts[wgt].type_update_flag = @ \ KEYMAP_INIT,
                             !.out = Append(@, CfgEv("init_runtime_keymap",
                                                     NoParams, wgt))]
              ELSE r
        runtime == r1.wgts[wgt].type_update_flag \cap UPDATE_INIT # {}
    IN IF runtime
       THEN [r1 EXCEPT !.wgts[wgt].type_update_flag = @ \ UPDATE_INIT,
                       !.out = Append(@, CfgEv("init_runtime",
                                               [spaceid |-> r.types[i].spaceid,
                                                regionid |-> r.types[i].regionid],
                                               wgt))]
       ELSE r1

RECURSIVE InitRefs(_, _, _)
InitRefs(r, i, refs) ==
    IF refs = <<>> THEN r
    ELSE InitRefs(InitRef(r, i, Head(refs)), i, Tail(refs))

RECURSIVE InitLoop(_, _)
InitLoop(r, i) ==
    IF i > Len(r.types) THEN r
    ELSE IF r.types[i].type_update_flag \cap (UPDATE_INIT \cup KEYMAP_INIT) # {}
    THEN LET r1 == [r EXCEPT !.types[i].type_update_flag =
                                 @ \ (UPDATE_INIT \cup KEYMAP_INIT)]
         IN InitLoop(InitRefs(r1, i, r1.types[i].grouptype_refs), i + 1)
    ELSE InitLoop(r, i + 1)

RemovePass(r) ==
    IF r.flag \cap GLOBAL_UPDATE_REMOVE # {}
    THEN [RemoveLoop(r, 1) EXCEPT !.flag = @ \ GLOBAL_UPDATE_REMOVE]
    ELSE r

InitPass(r) ==
    IF r.flag \cap GLOBAL_UPDATE_INIT # {}
    THEN [InitLoop(r, 1) EXCEPT !.flag = @ \ GLOBAL_UPDATE_INIT]
    ELSE r

ConfigUpdate_InitFirst(r, background) ==
    IF background THEN r
    ELSE IF r.flag = {} THEN r
    ELSE RemovePass(InitPass(r))

ConfigUpdate_IgnoreBackground(r, background) ==
    IF r.flag = {} THEN r
    ELSE InitPass(RemovePass(r))

ConfigUpdate(r, background) ==
    IF background THEN r
    ELSE IF r.flag = {} THEN r
    ELSE InitPass(RemovePass(r))

\* ------------------------------------------------------------ initial state
\* Manipulator types of the map: FullType declares every optional hook.
MprType(invoke, modal, select, cursor_get) ==
    [invoke |-> invoke, modal |-> modal, select |-> select, cursor_get |-> cursor_get]

FullType == MprType(TRUE, TRUE, TRUE, TRUE)

\* A manipulator as MEM_callocN leaves it (no state bit, part 0, no
\* interaction data), with its static description.
NewManipulator(type, custom_modal, op_data, hidden, name) ==
    [type |-> type, custom_modal |-> custom_modal, op_data |-> op_data,
     hidden |-> hidden, name |-> name,
     is_visible |-> {IS_VISIBLE_UPDATE, IS_VISIBLE_DRAW},
     state |-> {}, highlight_part |-> 0, interaction_data |-> FALSE]

\* A group of a group type with the given flags, poll result and hooks
\* (hooks: the type declares refresh and draw_prepare), drawn in drawsteps.
NewDrawGroup(flag, poll, hooks, drawsteps) ==
    [flag |-> flag, poll |-> poll, refresh |-> hooks, draw_prepare |-> hooks,
     drawsteps |-> drawsteps]

NewGroup(flag, poll) == NewDrawGroup(flag, poll, TRUE, DrawSteps)

\* The context of a map as WM_manipulatormap_new_from_type returns it.
NewContext ==
    [highlight |-> NULL, modal |-> NULL, selected |-> <<>>,
     selected_alloc |-> FALSE, selected_len |-> 0]

OrdersOf(S) ==
    {f \in [1..Cardinality(S) -> S] : \A i, j \in DOMAIN f : i # j => f[i] # f[j]}

IdOrder == [i \in 1..NMprs |-> i]

NoFind == [hit2d |-> [g \in Groups |-> NoHit2D], coarse |-> NoPick, refined |-> NoPick,
           part_in |-> 0, mpr |-> NULL, part |-> 0]

NoDraw == [mmap |-> "null", drawstep |-> "2D", draw_multisample |-> FALSE,
           assembled |-> <<>>, list |-> <<>>]

\* The registry and the deferred-update flags at start: zero-initialised.
RegistryInit ==
    /\ manipulatormaptypes = <<>>
    /\ grouptypes = [wgt \in GroupTypes |-> [type_update_flag |-> {}]]
    /\ wm_mmap_type_update_flag = {}
    /\ tagged = [wgt \in GroupTypes |-> <<>>]
    /\ reg_ret = NoRet

MapInit(GroupRecs, Types, OpDatas, Hiddens, Orders, obs) ==
    /\ mgroups \in [Groups -> GroupRecs]
    /\ \E ty \in [Mprs -> Types], od \in OpDatas, hd \in Hiddens :
          manipulators = [m \in Mprs |->
                             NewManipulator(ty[m], FALSE, od[m], hd[m], m)]
    /\ ghash_order \in Orders
    /\ observe = obs
    /\ mmap_context = NewContext
    /\ update_flag = MANIPULATORMAP_REFRESH
    /\ crashed = FALSE
    /\ out = <<>>
    /\ last = NoCall
    /\ prev = "none"
    /\ pre = ModalSnapshot(mmap_context, manipulators)
    /\ find = NoFind
    /\ draw = NoDraw
    /\ refreshed = {}
    /\ RegistryInit

\* ------------------------------------------------------------------ actions
\* History kept with a handler call that returned in state s.  A behaviour
\* records the calls' outputs and arguments ("calls"), also the modal state
\* before each call ("full"), or nothing ("none").
Record(call, s) ==
    /\ out' = IF observe = "none" THEN <<>> ELSE s.out
    /\ last' = IF observe = "none" THEN NoCall ELSE call
    /\ prev' = IF observe = "none" THEN "none" ELSE last.op
    /\ pre' = IF observe = "full" THEN ModalSnapshot(mmap_context, manipulators)
              ELSE pre
    /\ UNCHANGED <<mgroups, ghash_order, observe, find, draw, refreshed, regvars>>

HighlightSetCall ==
    /\ ~crashed
    /\ \E C \in BOOLEAN, mpr \in MprOrNull, part \in Parts :
          LET s == HighlightSet(Cur, C, mpr, part) IN
          /\ Commit(s)
          /\ Record(Call("highlight_set", mpr, part, C, "", FALSE), s)

\* modal-set taking its activation branch (mpr && C).
ModalActivateCall ==
    /\ ~crashed
    /\ \E mpr \in Mprs, alloc \in BOOLEAN, opres \in {"running", "cleared"} :
          LET s == ModalSet(Cur, TRUE, mpr, alloc, opres) IN
          /\ Commit(s)
          /\ Record(Call("modal_activate", mpr, 0, TRUE, opres, FALSE), s)

\* modal-set taking its else-branch: the null sentinel, or no context.
ModalClearCall ==
    /\ ~crashed
    /\ \E C \in BOOLEAN, mpr \in MprOrNull :
          LET s == ModalSet(Cur, C, mpr, FALSE, "running") IN
          /\ mpr # NULL => ~C
          /\ Commit(s)
          /\ Record(Call("modal_deactivate", mpr, 0, C, "", FALSE), s)

SelectAllCall ==
    /\ ~crashed
    /\ \E action \in {SEL_SELECT, SEL_DESELECT}, ub \in MprOrNull :
          LET r == SelectAll(Cur, TRUE, action, ub) IN
          /\ Commit(r.s)
          /\ Record(Call("select_all", NULL, 0, TRUE, action, r.ret), r.s)

SelectedClearCall ==
    /\ ~crashed
    /\ LET s == SelectedClear(Cur) IN
       /\ Commit(s)
       /\ Record(Call("selected_clear", NULL, 0, FALSE, "", FALSE), s)

HandledModalUpdateCall ==
    /\ ~crashed
    /\ \E region \in {"none", "nomap", "map"}, modal_running \in BOOLEAN,
          type_match \in BOOLEAN :
          LET s == HandledModalUpdate(Cur, region, modal_running, type_match) IN
          /\ Commit(s)
          /\ Record(Call("handled_modal_update", NULL, 0, TRUE,
                         IF modal_running THEN "running" ELSE "ended",
                         region = "map"), s)

\* wm_manipulatormap_highlight_find for one pointer event: hit2d[g] is what
\* the 2D test of group g reports for it, coarse and refined what the two
\* selection passes report, part_in the caller's *r_part before the call.
\* The call writes nothing of the map, so a behaviour takes one pointer
\* event from its map: a later event would meet the same map again.
HighlightFindCall ==
    /\ ~crashed
    /\ last.op = "none"
    /\ \E hit2d \in Hit2DInputs(Cur, NGroups), part_in \in {0, MaxPart} :
          LET acc == HighlightFindGroups(Cur, hit2d, part_in)
              picks == Picks(acc.list)
          IN \E coarse \in picks :
                \E refined \in IF coarse = NoPick THEN {NoPick} ELSE picks :
                   LET r == HighlightFindResult(acc, coarse, refined) IN
                   /\ find' = [hit2d |-> hit2d, coarse |-> coarse, refined |-> refined,
                               part_in |-> part_in, mpr |-> r.mpr, part |-> r.part]
                   /\ last' = Call("highlight_find", r.mpr, r.part, TRUE, "",
                                   r.mpr # NULL)
                   /\ prev' = last.op
                   /\ out' = r.passes
                   /\ UNCHANGED <<mgroups, manipulators, ghash_order, mmap_context,
                                  update_flag, crashed, pre, observe, draw, refreshed,
                                  regvars>>

\* WM_manipulatormap_draw for one frame and draw step; draw_multisample is
\* the user preference read by manipulators_draw_list.
\* The groups whose refresh hook is among the calls made.
Refreshed(calls) == {g \in Groups : \E i \in DOMAIN calls :
                                     calls[i].ev = "refresh" /\ calls[i].m = g}

DrawCall ==
    /\ ~crashed
    /\ \E mmap \in {"null", "empty", "map"}, drawstep \in DrawSteps,
          draw_multisample \in BOOLEAN :
          LET r == ManipulatormapDraw(Cur, mmap, drawstep, draw_multisample) IN
          /\ mmap # "map" => (drawstep = "2D" /\ ~draw_multisample)
          /\ Commit(r.s)
          /\ draw' = [mmap |-> mmap, drawstep |-> drawstep,
                      draw_multisample |-> draw_multisample,
                      assembled |-> r.assembled, list |-> r.list]
          /\ out' = r.s.out
          /\ last' = Call("draw", NULL, 0, TRUE, drawstep, FALSE)
          /\ refreshed' = IF observe = "full"
                          THEN refreshed \cup Refreshed(r.s.out)
                          ELSE refreshed
          /\ UNCHANGED <<mgroups, ghash_order, observe, find, prev, pre, regvars>>

TagRefreshCall ==
    /\ ~crashed
    /\ \E mmap \in {"null", "map"} :
          LET s == TagRefresh(Cur, mmap) IN
          /\ Commit(s)
          /\ out' = <<>>
          /\ last' = Call("tag_refresh", NULL, 0, TRUE, "", FALSE)
          /\ refreshed' = IF mmap = "map" THEN {} ELSE refreshed
          /\ UNCHANGED <<mgroups, ghash_order, observe, find, prev, pre, draw, regvars>>

vars == <<mapvars, regvars>>

\* A call on the registry that returned with r.
RegCommit(call, r) ==
    /\ manipulatormaptypes' = r.types
    /\ grouptypes' = r.wgts
    /\ wm_mmap_type_update_flag' = r.flag
    /\ out' = r.out
    /\ last' = call
    /\ UNCHANGED <<mgroups, manipulators, ghash_order, mmap_context, update_flag,
                   crashed, prev, pre, observe, find, draw, refreshed>>

\* The tags a group type got since the last flush that ran, the last two of
\* them, kept by the behaviours that record the full history.
Tagged(wgt, tag) ==
    IF observe = "full"
    THEN [tagged EXCEPT ![wgt] = IF @ = <<>> THEN <<tag>> ELSE <<@[Len(@)], tag>>]
    ELSE tagged

\* The argument and the result of a registry call (the map type returned as
\* its position in the list after the call, 0 for NULL; NoRet before any
\* call), kept by the behaviours that record the full history.
RegRet(mmap_params, types, mmap) ==
    IF observe = "full"
    THEN [mmap_params |-> mmap_params, mmap_type |-> MaptypeFind(types, mmap_params),
          mmap |-> mmap]
    ELSE reg_ret

MaptypeFindCall ==
    /\ ~crashed
    /\ UNCHANGED tagged
    /\ \E mmap_params \in Params :
       /\ RegCommit(Call("find", NULL, 0, FALSE, "", FALSE), Reg)
       /\ reg_ret' = RegRet(mmap_params, manipulatormaptypes, NoMap)

EnsureCall ==
    /\ ~crashed
    /\ UNCHANGED tagged
    /\ \E mmap_params \in Params :
       LET r == MaptypeEnsure(Reg, mmap_params) IN
       /\ RegCommit(Call("ensure", NULL, 0, FALSE, "", FALSE), r)
       /\ reg_ret' = RegRet(mmap_params, r.types, NoMap)

NewFromTypeCall ==
    /\ ~crashed
    /\ UNCHANGED tagged
    /\ \E mmap_params \in Params :
       LET n == NewFromType(Reg, mmap_params) IN
       /\ RegCommit(Call("new_from_type", NULL, 0, FALSE, "", FALSE), n.r)
       /\ reg_ret' = RegRet(mmap_params, n.r.types, n.mmap)

\* A group type is registered with its map type, once.
GroupLinkCall ==
    /\ ~crashed
    /\ \E wgt \in GroupTypes :
       LET i == MaptypeFind(manipulatormaptypes, wgt_mmap_params(wgt)) IN
       /\ i # 0
       /\ wgt \notin Range(manipulatormaptypes[i].grouptype_refs)
       /\ RegCommit(Call("group_link", NULL, 0, FALSE, "", FALSE),
                    GroupLink(Reg, i, wgt))
       /\ UNCHANGED <<tagged, reg_ret>>

\* The tags are made for a group type registered with its map type.
TagInitCall ==
    /\ ~crashed
    /\ \E wgt \in GroupTypes :
       LET i == MaptypeFind(manipulatormaptypes, wgt_mmap_params(wgt)) IN
       /\ i # 0
       /\ wgt \in Range(manipulatormaptypes[i].grouptype_refs)
       /\ RegCommit(Call("tag_init", NULL, 0, FALSE, "", FALSE), TagInit(Reg, i, wgt))
       /\ tagged' = Tagged(wgt, "init")
       /\ UNCHANGED reg_ret

TagRemoveCall ==
    /\ ~crashed
    /\ \E wgt \in GroupTypes :
       LET i == MaptypeFind(manipulatormaptypes, wgt_mmap_params(wgt)) IN
       /\ i # 0
       /\ wgt \in Range(manipulatormaptypes[i].grouptype_refs)
       /\ RegCommit(Call("tag_remove", NULL, 0, FALSE, "", FALSE),
                    TagRemove(Reg, i, wgt))
       /\ tagged' = Tagged(wgt, "remove")
       /\ UNCHANGED reg_ret

\* WM_manipulatorconfig_update; background is G.background.
ConfigUpdateCall ==
    /\ ~crashed
    /\ \E background \in BOOLEAN :
       /\ RegCommit(Call("config_update", NULL, 0, FALSE, "", background),
                    ConfigUpdate(Reg, background))
       /\ tagged' = IF background THEN tagged ELSE [wgt \in GroupTypes |-> <<>>]
       /\ UNCHANGED reg_ret

\* ------------------------------------------------------------ specifications
NoneHidden == {[m \in Mprs |-> FALSE]}

AtMostOneHidden ==
    {[m \in Mprs |-> m = h] : h \in MprOrNull}

SelectGroups == {NewGroup(f, TRUE) : f \in SUBSET {GROUPTYPE_SELECT}}

\* The interaction state machine: every handler, no history; either every
\* manipulator carries a bound operator or none does.
Init == MapInit(SelectGroups, {FullType}, {[m \in Mprs |-> b] : b \in BOOLEAN},
                NoneHidden, {IdOrder}, "none")

Next ==
    \/ HighlightSetCall
    \/ ModalActivateCall
    \/ ModalClearCall
    \/ SelectAllCall
    \/ HandledModalUpdateCall

Spec == Init /\ [][Next]_vars

\* Modal-set calls alone, with the modal state before each call recorded.
InitModal == MapInit({NewGroup({}, TRUE)}, {FullType}, [Mprs -> BOOLEAN], NoneHidden,
                     {IdOrder}, "full")

NextModal ==
    \/ ModalActivateCall
    \/ ModalClearCall

SpecModal == InitModal /\ [][NextModal]_vars

\* Highlight-set and select-all calls, with each call's outputs recorded.
InitSelect == MapInit({NewGroup(f, p) : f \in SUBSET {GROUPTYPE_SELECT}, p \in BOOLEAN},
                      {FullType}, {[m \in Mprs |-> FALSE]}, NoneHidden,
                      {IdOrder, [i \in 1..NMprs |-> NMprs + 1 - i]}, "calls")

NextSelect ==
    \/ HighlightSetCall
    \/ SelectAllCall

SpecSelect == InitSelect /\ [][NextSelect]_vars

\* The selection calls on maps whose groups are selectable or not, pass
\* their poll or not, with at most one hidden manipulator.
InitSelection == MapInit({NewGroup(f, p) : f \in SUBSET {GROUPTYPE_SELECT},
                                           p \in BOOLEAN},
                         {FullType}, {[m \in Mprs |-> FALSE]}, AtMostOneHidden,
                         {IdOrder}, "calls")

NextSelection ==
    \/ SelectAllCall
    \/ SelectedClearCall

SpecSelection == InitSelection /\ [][NextSelection]_vars

\* Between two calls the poll callback of a group type starts to answer
\* differently (mgroup->type->poll is asked anew by every traversal).
GroupPollChange ==
    /\ ~crashed
    /\ \E g \in Groups :
          mgroups' = [mgroups EXCEPT ![g].poll = ~@]
    /\ UNCHANGED <<manipulators, ghash_order, mmap_context, update_flag, crashed,
                   out, last, prev, pre, observe, find, draw, refreshed, regvars>>

\* Between two calls the owner of a manipulator sets or clears its
\* WM_MANIPULATOR_HIDDEN flag.
HiddenChange ==
    /\ ~crashed
    /\ \E m \in Mprs :
          manipulators' = [manipulators EXCEPT ![m].hidden = ~@]
    /\ UNCHANGED <<mgroups, ghash_order, mmap_context, update_flag, crashed,
                   out, last, prev, pre, observe, find, draw, refreshed, regvars>>

\* select_all calls interleaved with changes of poll results and hidden
\* flags.
NextSelectAll ==
    \/ SelectAllCall
    \/ GroupPollChange
    \/ HiddenChange

SpecSelectAll == InitSelection /\ [][NextSelectAll]_vars

\* Hit testing: maps of 2D and 3D groups, visible or not, with at most one
\* hidden manipulator.
InitFind == MapInit({NewGroup(f, p) : f \in SUBSET {GROUPTYPE_3D}, p \in BOOLEAN},
                    {FullType}, {[m \in Mprs |-> FALSE]}, AtMostOneHidden, {IdOrder},
                    "calls")

NextFind == HighlightFindCall

SpecFind == InitFind /\ [][NextFind]_vars

\* A manipulator as wm_manipulatormap_modal_set or
\* wm_manipulatormap_highlight_set leaves the one it is given.
WithState(mprs, m, bit) ==
    IF m = NULL THEN mprs ELSE [mprs EXCEPT ![m].state = @ \cup {bit}]

\* The modal handler's update and the activations it follows, on a map with
\* at most one manipulator highlighted, with each call's outputs recorded.
InitHandler ==
    /\ mgroups \in [Groups -> {NewGroup({}, TRUE)}]
    /\ \E x \in MprOrNull, b \in BOOLEAN :
          /\ manipulators = WithState([m \in Mprs |->
                                NewManipulator(FullType, FALSE, b, FALSE, m)],
                                      x, STATE_HIGHLIGHT)
          /\ mmap_context = [NewContext EXCEPT !.highlight = x]
    /\ ghash_order = IdOrder
    /\ observe = "calls"
    /\ update_flag = MANIPULATORMAP_REFRESH
    /\ crashed = FALSE
    /\ out = <<>>
    /\ last = NoCall
    /\ prev = "none"
    /\ pre = ModalSnapshot(mmap_context, manipulators)
    /\ find = NoFind
    /\ draw = NoDraw
    /\ refreshed = {}
    /\ RegistryInit

NextHandler ==
    \/ ModalActivateCall
    \/ HandledModalUpdateCall

SpecHandler == InitHandler /\ [][NextHandler]_vars

\* Modal-set calls on maps whose manipulators declare an invoke hook, a
\* modal hook, a custom modal hook and a bound operator, or not.
InitInvoke ==
    /\ mgroups \in [Groups -> {NewGroup({}, TRUE)}]
    /\ \E invoke \in BOOLEAN, modal \in BOOLEAN, custom_modal \in BOOLEAN,
          op_data \in BOOLEAN :
          manipulators = [m \in Mprs |->
                             NewManipulator(MprType(invoke, modal, TRUE, TRUE),
                                            custom_modal, op_data, FALSE, m)]
    /\ mmap_context = NewContext
    /\ ghash_order = IdOrder
    /\ observe = "calls"
    /\ update_flag = MANIPULATORMAP_REFRESH
    /\ crashed = FALSE
    /\ out = <<>>
    /\ last = NoCall
    /\ prev = "none"
    /\ pre = ModalSnapshot(mmap_context, manipulators)
    /\ find = NoFind
    /\ draw = NoDraw
    /\ refreshed = {}
    /\ RegistryInit

SpecInvoke == InitInvoke /\ [][NextModal]_vars

\* The draw pipeline: groups that are plain, depth tested, drawn whole while
\* modal, failing their poll, or without hooks and left out of the 3D step;
\* at most one manipulator x is out of the ordinary: update-only or hidden,
\* and modal or highlighted.
DrawGroups ==
    {NewGroup({}, TRUE), NewGroup({GROUPTYPE_DEPTH_3D}, TRUE),
     NewGroup({GROUPTYPE_DRAW_MODAL_ALL}, TRUE), NewGroup({}, FALSE),
     NewDrawGroup({}, TRUE, FALSE, {"2D"})}

InitDraw ==
    /\ mgroups \in [Groups -> DrawGroups]
    /\ \E x \in MprOrNull, vis \in {"draw", "update", "hidden"},
          st \in {"none", "modal", "highlight"} :
          LET modal == IF st = "modal" THEN x ELSE NULL
              highlight == IF st = "highlight" THEN x ELSE NULL
          IN
          /\ manipulators =
                WithState(WithState(
                    [m \in Mprs |->
                        [NewManipulator(FullType, FALSE, FALSE,
                                        m = x /\ vis = "hidden", m)
                            EXCEPT !.is_visible =
                                IF m = x /\ vis = "update" THEN {IS_VISIBLE_UPDATE}
                                ELSE {IS_VISIBLE_UPDATE, IS_VISIBLE_DRAW}]],
                    modal, STATE_MODAL), highlight, STATE_HIGHLIGHT)
          /\ mmap_context = [NewContext EXCEPT !.modal = modal,
                                               !.highlight = highlight]
    /\ ghash_order = IdOrder
    /\ observe = "calls"
    /\ update_flag = MANIPULATORMAP_REFRESH
    /\ crashed = FALSE
    /\ out = <<>>
    /\ last = NoCall
    /\ prev = "none"
    /\ pre = ModalSnapshot(mmap_context, manipulators)
    /\ find = NoFind
    /\ draw = NoDraw
    /\ refreshed = {}
    /\ RegistryInit

NextDraw ==
    \/ DrawCall
    \/ TagRefreshCall

SpecDraw == InitDraw /\ [][NextDraw]_vars

\* The same pipeline on a freshly tagged map, at most one manipulator modal,
\* with the groups refreshed since the last tag recorded.
InitRefresh ==
    /\ mgroups \in [Groups -> DrawGroups]
    /\ \E x \in MprOrNull :
          /\ manipulators = WithState([m \in Mprs |->
                                NewManipulator(FullType, FALSE, FALSE, FALSE, m)],
                                      x, STATE_MODAL)
          /\ mmap_context = [NewContext EXCEPT !.modal = x]
    /\ ghash_order = IdOrder
    /\ observe = "full"
    /\ update_flag = MANIPULATORMAP_REFRESH
    /\ crashed = FALSE
    /\ out = <<>>
    /\ last = NoCall
    /\ prev = "none"
    /\ pre = ModalSnapshot(mmap_context, manipulators)
    /\ find = NoFind
    /\ draw = NoDraw
    /\ refreshed = {}
    /\ RegistryInit

SpecRefresh == InitRefresh /\ [][NextDraw]_vars

\* The registry and the deferred updates of its types.
InitCfg == MapInit({NewGroup({}, TRUE)}, {FullType}, {[m \in Mprs |-> FALSE]},
                   NoneHidden, {IdOrder}, "calls")

NextCfg ==
    \/ EnsureCall
    \/ GroupLinkCall
    \/ TagInitCall
    \/ TagRemoveCall
    \/ ConfigUpdateCall

SpecCfg == InitCfg /\ [][NextCfg]_vars

\* The same, with the tags of each group type recorded.
InitTags == MapInit({NewGroup({}, TRUE)}, {FullType}, {[m \in Mprs |-> FALSE]},
                    NoneHidden, {IdOrder}, "full")

SpecTags == InitTags /\ [][NextCfg]_vars

\* The registry's lookups and the calls that fill it, with each call's
\* argument and result recorded.
NextReg ==
    \/ MaptypeFindCall
    \/ EnsureCall
    \/ NewFromTypeCall
    \/ GroupLinkCall

SpecReg == InitTags /\ [][NextReg]_vars

\* ------------------------------------------------------------------ claims
ModalBit(m) == STATE_MODAL \in manipulators[m].state
SelectBit(m) == STATE_SELECT \in manipulators[m].state
HighlightBit(m) == STATE_HIGHLIGHT \in manipulators[m].state

\* The visible 2D groups whose intersection test reports a hit for the event.
Hit2DGroups ==
    {g \in Groups : /\ GroupIsVisible(g)
                    /\ GROUPTYPE_3D \notin mgroups[g].flag
                    /\ find.hit2d[g].m # NULL}

FirstHit2DGroup == CHOOSE g \in Hit2DGroups : \A h \in Hit2DGroups : g <= h

\* C1: if a visible 2D group's intersection test reports a hit,
\* wm_manipulatormap_highlight_find returns the manipulator and part of the
\* first such group in map order, whatever 3D groups the map holds and
\* whatever the 3D pick would return.
C1_Hit2DPriority ==
    (last.op = "highlight_find" /\ Hit2DGroups # {})
    => (/\ find.mpr = find.hit2d[FirstHit2DGroup].m
        /\ find.part = find.hit2d[FirstHit2DGroup].part)

\* C2: after any sequence of modal-set calls on one map, at most one
\* manipulator of the map has its modal-state bit set.
C2_AtMostOneModalBit == Cardinality({m \in Mprs : ModalBit(m)}) <= 1

\* C3: a modal-set activation followed immediately by modal-set with the
\* null sentinel leaves the modal slot empty and every manipulator's
\* modal-state bit and interaction data equal to its value before the
\* activation (pre, while the activation is the last call).
C3_ActivateDeactivateRestores ==
    [][(/\ last.op = "modal_activate"
        /\ last'.op = "modal_deactivate" /\ last'.mpr = NULL)
       => (/\ mmap_context'.modal = NULL
           /\ \A m \in Mprs :
                 /\ (STATE_MODAL \in manipulators'[m].state) = pre.bits[m]
                 /\ manipulators'[m].interaction_data = pre.data[m])]_vars

\* C4: when modal-set activates a manipulator with a bound operator and the
\* operator invocation returns with the modal slot empty, then on return the
\* manipulator's modal-state bit is clear, its interaction data is released,
\* and the modal slot and every modal-state bit are as before the call.
C4_FailedActivationRollsBack ==
    (/\ last.op = "modal_activate"
     /\ manipulators[last.mpr].op_data
     /\ last.action = "cleared")
    => (/\ ~ModalBit(last.mpr)
        /\ ~manipulators[last.mpr].interaction_data
        /\ mmap_context.modal = pre.modal
        /\ \A m \in Mprs : ModalBit(m) = pre.bits[m])

C6_SelectIdempotent ==
    [][(/\ last.op = "select_all" /\ last.action = SEL_SELECT
        /\ mmap_context.selected_len > 0
        /\ last'.op = "select_all" /\ last'.action = SEL_SELECT)
       => (/\ ~last'.ret
           /\ \A i \in DOMAIN out' : out'[i].ev # "event_add_mousemove"
           /\ mmap_context'.selected = mmap_context.selected
           /\ mmap_context'.selected_len = mmap_context.selected_len
           /\ mmap_context'.highlight = mmap_context.highlight
           /\ \A m \in Mprs : (STATE_SELECT \in manipulators'[m].state) = SelectBit(m))]_vars

C6_Witness ==
    /\ prev = "select_all"
    /\ last.op = "select_all" /\ last.action = SEL_SELECT /\ ~last.ret
    /\ mmap_context.selected_len = 2

\* C7: highlight-set called with the current highlight target and its
\* current part (or with null when nothing is highlighted) changes no state
\* of the map or of any manipulator and requests no cursor change and no
\* redraw.
C7_HighlightSetNoop ==
    [][(/\ last'.op = "highlight_set"
        /\ last'.mpr = mmap_context.highlight
        /\ (last'.mpr # NULL => last'.part = manipulators[last'.mpr].highlight_part))
       => (/\ UNCHANGED <<mmap_context, manipulators, update_flag>>
           /\ out' = <<>>)]_vars

C7_Witness ==
    /\ last.op = "highlight_set" /\ last.C /\ last.mpr # NULL /\ last.part = 1
    /\ mmap_context.highlight = last.mpr
    /\ out = <<>>

\* C8: after any sequence of highlight-set, select-all, modal-set and
\* modal-handler-update calls, at most one manipulator carries the highlight
\* bit and it is the map's highlight target; every other manipulator has the
\* bit clear and highlight part 0.
C8_SingleHighlight ==
    \A m \in Mprs :
        /\ HighlightBit(m) = (m = mmap_context.highlight)
        /\ m # mmap_context.highlight => manipulators[m].highlight_part = 0

C8_Witness ==
    /\ mmap_context.highlight # NULL
    /\ manipulators[mmap_context.highlight].highlight_part = 1
    /\ mmap_context.modal \notin {NULL, mmap_context.highlight}
    /\ mmap_context.selected_len > 0
    /\ mmap_context.highlight \notin Range(mmap_context.selected)

\* The manipulators whose draw callback the last call ran, in call order.
DrawnEvents == SelectSeq(out, LAMBDA e : e.ev = "draw")

Drawn == [i \in 1..Len(DrawnEvents) |-> DrawnEvents[i].m]

\* C9: WM_manipulatormap_draw returns with its draw list empty, and the draw
\* callbacks it ran are those of the manipulators appended during assembly,
\* each once, on the null/empty-map, modal-only and full-traversal paths.
C9_DrawListEmpty ==
    last.op = "draw" => (draw.list = <<>> /\ Drawn = draw.assembled)

\* A full traversal that assembled and drew two manipulators or more.
C9_Witness ==
    /\ last.op = "draw"
    /\ draw.mmap = "map"
    /\ Len(draw.assembled) >= 2
    /\ draw.list = <<>>

InitHooks == {"init_runtime_keymap", "init_runtime"}

\* C10: within one run of WM_manipulatorconfig_update, every unlink of a
\* pending removal, on whatever map type, comes before the first
\* keymap-init or runtime-init hook call of the run.
C10_UnlinksBeforeInits ==
    last.op = "config_update"
    => \A i, j \in DOMAIN out :
          (out[i].ev \in InitHooks /\ out[j].ev = "unlink") => j < i

\* A run that both unlinked a group type and called an init hook.
C10_Witness ==
    /\ last.op = "config_update"
    /\ \E i, j \in DOMAIN out : out[i].ev \in InitHooks /\ out[j].ev = "unlink"

\* The positions in the calls of the flush that just returned (out') of the
\* calls named ev that were made for group type wgt.
FlushCalls(ev, wgt) == {i \in DOMAIN out' : out'[i].ev = ev /\ out'[i].m = wgt}

\* C11: a group type tagged for removal and then for init before any flush
\* has, when the next flush that runs returns, been unlinked and had its
\* keymap-init and runtime-init hooks run once each, after the unlink.
C11_RemoveThenInit ==
    [][\A wgt \in GroupTypes :
          (/\ last'.op = "config_update" /\ ~last'.ret
           /\ tagged[wgt] = <<"remove", "init">>)
          => (/\ FlushCalls("unlink", wgt) # {}
              /\ Cardinality(FlushCalls("init_runtime_keymap", wgt)) = 1
              /\ Cardinality(FlushCalls("init_runtime", wgt)) = 1
              /\ \A u \in FlushCalls("unlink", wgt),
                    h \in FlushCalls("init_runtime_keymap", wgt)
                           \cup FlushCalls("init_runtime", wgt) : u < h)]_vars

\* C12: a flush leaves registered, in each map type, every group type that
\* was never tagged for removal (its removal bit is not set).
C12_UntaggedStayRegistered ==
    [][last'.op = "config_update"
       => \A i \in DOMAIN manipulatormaptypes :
             \A wgt \in Range(manipulatormaptypes[i].grouptype_refs) :
                (UPDATE_REMOVE \cap grouptypes[wgt].type_update_flag = {})
                => wgt \in Range(manipulatormaptypes'[i].grouptype_refs)]_vars

\* The state in which a draw call takes the modal-only path: a manipulator is
\* modal and its group type does not ask for the whole map to be drawn.
ModalOnly ==
    /\ mmap_context.modal # NULL
    /\ GROUPTYPE_DRAW_MODAL_ALL \notin mgroups[parent_mgroup(mmap_context.modal)].flag

\* C13: a draw call that takes the modal-only path leaves the refresh flag
\* of the map as it was; only a full traversal clears it.
C13_ModalOnlyKeepsFlag ==
    [][(last'.op = "draw" /\ draw'.mmap = "map" /\ ModalOnly)
       => update_flag' = update_flag]_vars

\* C14: a draw call clears the refresh flag of a tagged map only when every
\* group that declares a refresh hook has had it run since the tag.
C14_ClearedOnlyWhenAllRefreshed ==
    [][(last'.op = "draw" /\ update_flag = MANIPULATORMAP_REFRESH /\ update_flag' = 0)
       => \A g \in Groups : mgroups[g].refresh => g \in refreshed']_vars

\* The manipulators that are visible and selectable: not hidden, in a group
\* that passes its poll and whose type is selectable.
VisibleSelectable ==
    {m \in Mprs : /\ ~manipulators[m].hidden
                  /\ mgroups[parent_mgroup(m)].poll
                  /\ GROUPTYPE_SELECT \in mgroups[parent_mgroup(m)].flag}

\* C15: after select_all(SELECT) the selected array holds exactly the visible
\* selectable manipulators, selected_len is their number, each of them has
\* its selection bit set and no hidden manipulator is in the selection.
C15_SelectsVisibleOnly ==
    (last.op = "select_all" /\ last.action = SEL_SELECT /\ ~crashed)
    => (/\ Range(mmap_context.selected) = VisibleSelectable
        /\ mmap_context.selected_len = Cardinality(VisibleSelectable)
        /\ \A m \in VisibleSelectable : SelectBit(m)
        /\ \A m \in Range(mmap_context.selected) : ~manipulators[m].hidden)

\* C16: the selected array holds exactly selected_len entries, each one a
\* manipulator of the map, none twice; with selected_len 0 it has no slot
\* that points at a manipulator.
C16_SelectionConsistent ==
    /\ Len(mmap_context.selected) = mmap_context.selected_len
    /\ \A i \in DOMAIN mmap_context.selected : mmap_context.selected[i] \in Mprs
    /\ \A i, j \in DOMAIN mmap_context.selected :
          mmap_context.selected[i] = mmap_context.selected[j] => i = j
    /\ mmap_context.selected_len = 0 => Range(mmap_context.selected) = {}

C16_Witness ==
    /\ prev = "select_all"
    /\ last.op = "selected_clear"
    /\ \E m \in Mprs : SelectBit(m)
    /\ mmap_context.selected_len = 0

\* The call that just returned asked for a pointer-move event.
MousemoveRequested(calls) ==
    \E i \in DOMAIN calls : calls[i].ev = "event_add_mousemove"

\* C17: select_all(DESELECT) on an empty selection changes nothing, returns
\* "no change" and requests no pointer-move event; on a non-empty selection
\* it clears the selection bit of every selected manipulator, resets the
\* count to 0, returns "changed" and requests a pointer-move event.
C17_Deselect ==
    [][(last'.op = "select_all" /\ last'.action = SEL_DESELECT)
       => IF mmap_context.selected_len = 0
          THEN /\ ~last'.ret
               /\ out' = <<>>
               /\ UNCHANGED <<mmap_context, manipulators, update_flag>>
          ELSE /\ last'.ret
               /\ MousemoveRequested(out')
               /\ mmap_context'.selected_len = 0
               /\ \A m \in Range(mmap_context.selected) :
                     STATE_SELECT \notin manipulators'[m].state]_vars

C17_Witness ==
    /\ last.op = "select_all" /\ last.action = SEL_DESELECT
    /\ last.ret
    /\ MousemoveRequested(out)
    /\ \A m \in Mprs : ~SelectBit(m)

\* C18: WM_manipulatorconfig_update called with the global flag zero or on a
\* headless host calls no unlink, keymap-init or runtime-init hook and leaves
\* the global flag, every map type's and group type's flag and the registry
\* as they were (tags made while headless stay pending).
C18_FlushNoop ==
    [][(last'.op = "config_update" /\ (last'.ret \/ wm_mmap_type_update_flag = {}))
       => (/\ out' = <<>>
           /\ UNCHANGED <<manipulatormaptypes, grouptypes,
                          wm_mmap_type_update_flag>>)]_vars

C18_Witness ==
    /\ last.op = "config_update" /\ last.ret
    /\ wm_mmap_type_update_flag # {}
    /\ \E i \in DOMAIN manipulatormaptypes :
          /\ manipulatormaptypes[i].type_update_flag # {}
          /\ manipulatormaptypes[i].grouptype_refs # <<>>
    /\ out = <<>>

\* The calls of manipulator callbacks (update, draw) and of group hooks.
ManipulatorCallbacks == {"update", "update_refresh", "draw"}

GroupHooks == {"ensure_initialized", "refresh", "draw_prepare"}

\* C19: a draw call made while a manipulator is modal and its group type does
\* not ask for the whole map calls the update and draw callbacks of no other
\* manipulator and no group hook; when the group type asks for the whole map
\* the traversal visits every visible group.
C19_ModalDrawsOnlyModal ==
    [][(last'.op = "draw" /\ draw'.mmap = "map" /\ mmap_context.modal # NULL)
       => IF ModalOnly
          THEN \A i \in DOMAIN out' :
                  /\ out'[i].ev \notin GroupHooks
                  /\ out'[i].ev \in ManipulatorCallbacks
                     => out'[i].m = mmap_context.modal
          ELSE \A g \in Groups :
                  (GroupIsVisibleInDrawstep(g, draw'.drawstep) /\ GroupIsVisible(g))
                  => \E i \in DOMAIN out' : /\ out'[i].ev = "ensure_initialized"
                                             /\ out'[i].m = g]_vars

C19_Witness ==
    /\ last.op = "draw" /\ draw.mmap = "map"
    /\ ModalOnly
    /\ Drawn = <<mmap_context.modal>>
    /\ \E m \in Mprs : /\ m # mmap_context.modal
                        /\ ~manipulators[m].hidden
                        /\ GroupIsVisible(parent_mgroup(m))
                        /\ GroupIsVisibleInDrawstep(parent_mgroup(m), draw.drawstep)

\* The registry holds at most one map type per (space, region) pair.
OneTypePerPair(types) ==
    \A i, j \in DOMAIN types :
       (types[i].spaceid = types[j].spaceid /\ types[i].regionid = types[j].regionid)
       => i = j

\* The map type the last call returned is the one of its argument.
ReturnedMatches(types, ret) ==
    /\ ret.mmap_type \in DOMAIN types
    /\ types[ret.mmap_type].spaceid = ret.mmap_params.spaceid
    /\ types[ret.mmap_type].regionid = ret.mmap_params.regionid

\* C20: the registry holds at most one map type per (space, region) pair;
\* ensure (also when called by new_from_type) returns the existing type when
\* one matches and leaves the registry alone, and otherwise adds exactly one
\* type, with zeroed update flags and an empty group-type list, which it
\* returns; find never changes the registry.
C20_OneTypePerPair ==
    /\ []OneTypePerPair(manipulatormaptypes)
    /\ [][/\ last'.op \in {"ensure", "new_from_type"}
             => /\ ReturnedMatches(manipulatormaptypes', reg_ret')
                /\ IF MaptypeFind(manipulatormaptypes, reg_ret'.mmap_params) # 0
                   THEN /\ manipulatormaptypes' = manipulatormaptypes
                        /\ reg_ret'.mmap_type =
                              MaptypeFind(manipulatormaptypes, reg_ret'.mmap_params)
                   ELSE /\ manipulatormaptypes' =
                              <<[spaceid |-> reg_ret'.mmap_params.spaceid,
                                 regionid |-> reg_ret'.mmap_params.regionid,
                                 type_update_flag |-> {},
                                 grouptype_refs |-> <<>>]>> \o manipulatormaptypes
                        /\ reg_ret'.mmap_type = 1
          /\ last'.op = "find"
             => /\ manipulatormaptypes' = manipulatormaptypes
                /\ reg_ret'.mmap_type # 0
                   => ReturnedMatches(manipulatormaptypes, reg_ret')]_vars

C20_Witness ==
    /\ Len(manipulatormaptypes) = Len(SpaceIds)
    /\ last.op = "ensure"
    /\ reg_ret.mmap_type # 1
    /\ \E i \in DOMAIN manipulatormaptypes :
          manipulatormaptypes[i].grouptype_refs # <<>>

\* C21: the map new_from_type returns belongs to the map type of the
\* requested (space, region) pair, has its refresh flag pending, no
\* highlighted and no modal manipulator and an empty selection, and one
\* group was requested for each group type registered on the map type, in
\* the order of the registry's list.
C21_NewFromType ==
    last.op = "new_from_type"
    => (/\ ReturnedMatches(manipulatormaptypes, reg_ret)
        /\ reg_ret.mmap.type = reg_ret.mmap_type
        /\ reg_ret.mmap.update_flag = MANIPULATORMAP_REFRESH
        /\ reg_ret.mmap.highlight = NULL
        /\ reg_ret.mmap.modal = NULL
        /\ reg_ret.mmap.selected = <<>> /\ reg_ret.mmap.selected_len = 0
        /\ reg_ret.mmap.groups =
              manipulatormaptypes[reg_ret.mmap_type].grouptype_refs)

C21_Witness ==
    /\ last.op = "new_from_type"
    /\ Len(reg_ret.mmap.groups) >= 2
    /\ reg_ret.mmap_type # 1

\* The 3D candidate list of the pointer event the behaviour took.
Candidates == HighlightFindGroups(Cur, find.hit2d, find.part_in).list

\* C22: the 3D pick runs its coarse pass at a half-width of 7 px; with no
\* coarse hit the result is absent and no tighter pass is run; otherwise a
\* second pass at 40% of that radius is run over the same list and its hit,
\* if any, is the result, else the coarse hit is.
C22_RefinedOverridesCoarse ==
    (last.op = "highlight_find" /\ Candidates # <<>>)
    => (/\ HotspotCoarse = 70 /\ 10 * HotspotRefined = 4 * HotspotCoarse
        /\ IF find.coarse = NoPick
           THEN /\ find.mpr = NULL
                /\ out = <<Ev("find_intersected_3d_intern", HotspotCoarse)>>
           ELSE /\ out = <<Ev("find_intersected_3d_intern", HotspotCoarse),
                           Ev("find_intersected_3d_intern", HotspotRefined)>>
                /\ LET hit == IF find.refined # NoPick THEN find.refined
                                                        ELSE find.coarse
                   IN /\ find.mpr = Candidates[hit.idx]
                      /\ find.part = hit.part)

C22_Witness ==
    /\ last.op = "highlight_find"
    /\ Len(Candidates) >= 2
    /\ find.coarse # NoPick /\ find.refined # NoPick
    /\ find.refined.idx # find.coarse.idx
    /\ find.mpr = Candidates[find.refined.idx]

\* C23: whenever wm_manipulatormap_highlight_find finds no manipulator it
\* returns an absent manipulator and reports part 0.
C23_NoHitPartZero ==
    (last.op = "highlight_find" /\ find.mpr = NULL) => find.part = 0

\* A draw call on the map that made the full traversal has returned.
FullTraversalDrawn == last.op = "draw" /\ draw.mmap = "map" /\ ~ModalOnly

\* C24: in a full-traversal draw call the draw callbacks are invoked in the
\* groups' traversal order, and within each group in the reverse of the
\* group's manipulator order.
C24_DrawOrder ==
    FullTraversalDrawn
    => LET drawn == Drawn IN
       \A i, j \in DOMAIN drawn :
          i < j => \/ parent_mgroup(drawn[i]) < parent_mgroup(drawn[j])
                   \/ /\ parent_mgroup(drawn[i]) = parent_mgroup(drawn[j])
                      /\ TraversalIndex(drawn[i]) > TraversalIndex(drawn[j])

\* C24 as amended: in a full-traversal draw call the draw callbacks are
\* invoked in the reverse of the whole traversal: the groups last to first,
\* and within each group the manipulators last to first.
C24_DrawOrderAmended ==
    FullTraversalDrawn
    => LET drawn == Drawn IN
       \A i, j \in DOMAIN drawn :
          i < j => TraversalIndex(drawn[i]) > TraversalIndex(drawn[j])

C24_Witness ==
    /\ FullTraversalDrawn
    /\ Len(Drawn) >= 3
    /\ \E a, b \in Range(Drawn) : parent_mgroup(a) < parent_mgroup(b)
    /\ \E a, b \in Range(Drawn) : a # b /\ parent_mgroup(a) = parent_mgroup(b)

\* The calls that switch depth testing, and whether depth testing is on
\* just before the i-th call of the draw call that returned (it is off on
\* entry).
DepthToggles == {i \in DOMAIN out : out[i].ev \in {"glEnable_depth", "glDisable_depth"}}

DepthOnBefore(i) ==
    LET before == {j \in DepthToggles : j < i} IN
    /\ before # {}
    /\ out[CHOOSE j \in before : \A k \in before : k <= j].ev = "glEnable_depth"

\* C25: at each invocation of a draw callback depth testing is enabled
\* exactly when the manipulator's group type asks for 3D depth testing and
\* the manipulator is not highlighted; every switch of the depth mode changes
\* it and is followed by the draw of an entry or by the end of the list; depth
\* testing is disabled when the draw call returns.
C25_DepthToggling ==
    (last.op = "draw" /\ draw.mmap = "map")
    => (/\ \A i \in DOMAIN out :
              out[i].ev = "draw"
              => (DepthOnBefore(i)
                  <=> (/\ GROUPTYPE_DEPTH_3D \in mgroups[parent_mgroup(out[i].m)].flag
                       /\ ~HighlightBit(out[i].m)))
        /\ \A i \in DepthToggles :
              /\ DepthOnBefore(i) # DepthOnBefore(i + 1)
              /\ i + 1 \notin DepthToggles
        /\ ~DepthOnBefore(Len(out) + 1))

C25_Witness ==
    /\ last.op = "draw" /\ draw.mmap = "map"
    /\ Cardinality(DepthToggles) >= 2
    /\ \E m \in Range(Drawn) :
          /\ GROUPTYPE_DEPTH_3D \in mgroups[parent_mgroup(m)].flag
          /\ HighlightBit(m)
    /\ \E m \in Range(Drawn) :
          /\ GROUPTYPE_DEPTH_3D \in mgroups[parent_mgroup(m)].flag
          /\ ~HighlightBit(m)

\* The modal handler update that just returned found the operator ended
\* and a map in the handler's region.
EndedUpdate == /\ last'.op = "handled_modal_update"
               /\ last'.action = "ended" /\ last'.ret

\* C26: when the modal handler update runs for a handler whose operator is
\* no longer running and whose region has a map, the map has on return no
\* highlighted and no modal manipulator, and the manipulator that was modal
\* has its modal-state bit cleared and its interaction data released.
C26_EndedUpdateDeactivates ==
    [][EndedUpdate
       => (/\ mmap_context'.highlight = NULL
           /\ mmap_context'.modal = NULL
           /\ mmap_context.modal # NULL
              => /\ STATE_MODAL \notin manipulators'[mmap_context.modal].state
                 /\ ~manipulators'[mmap_context.modal].interaction_data)]_vars

C26_Witness ==
    /\ prev = "modal_activate"
    /\ last.op = "handled_modal_update" /\ last.action = "ended" /\ last.ret
    /\ mmap_context.modal = NULL /\ mmap_context.highlight = NULL
    /\ \E i \in DOMAIN out : out[i].ev = "cursor_grab_disable"
    /\ \E i \in DOMAIN out : out[i].ev = "cursor_set"

\* C27: the modal handler update whose handler has no region, or whose
\* region has no map, calls no hook, changes no map or manipulator state and
\* does not touch the context's area and region.
C27_SilentSkip ==
    [][(last'.op = "handled_modal_update" /\ ~last'.ret)
       => (/\ out' = <<>>
           /\ UNCHANGED <<mmap_context, manipulators, update_flag, mgroups>>)]_vars

C27_Witness ==
    /\ last.op = "handled_modal_update" /\ ~last.ret
    /\ last.action = "ended"
    /\ mmap_context.modal # NULL /\ mmap_context.highlight # NULL
    /\ out = <<>>

\* The positions of the calls named ev among those of the call that returned.
CallsOf(ev) == {i \in DOMAIN out : out[i].ev = ev}

\* C28: an activation of a manipulator with a bound operator calls the
\* manipulator's invoke hook at most once, only if the manipulator declares
\* a per-event modal hook, and before it requests the operator's invocation;
\* an activation engages cursor-grab only for a manipulator without a bound
\* operator.
C28_InvokeBeforeOperator ==
    last.op = "modal_activate"
    => LET mpr == manipulators[last.mpr] IN
       /\ mpr.op_data
          => /\ Cardinality(CallsOf("invoke")) <= 1
             /\ CallsOf("invoke") # {} => (mpr.type.modal \/ mpr.custom_modal)
             /\ Cardinality(CallsOf("operator_call")) = 1
             /\ \A i \in CallsOf("invoke"), j \in CallsOf("operator_call") :
                   i < j /\ out[i].m = last.mpr /\ out[j].m = last.mpr
       /\ CallsOf("cursor_grab_enable") # {} => ~mpr.op_data

C28_Witness ==
    /\ last.op = "modal_activate"
    /\ manipulators[last.mpr].op_data
    /\ ~manipulators[last.mpr].type.modal /\ manipulators[last.mpr].custom_modal
    /\ CallsOf("invoke") # {} /\ CallsOf("operator_call") # {}

\* C29: when a flush on a host that is not headless has returned, the
\* global update flag is 0 and no map type and no group type carries a
\* pending remove, runtime-init or keymap-init bit.
C29_FlushConverged ==
    (last.op = "config_update" /\ ~last.ret)
    => (/\ wm_mmap_type_update_flag = {}
        /\ \A i \in DOMAIN manipulatormaptypes :
              manipulatormaptypes[i].type_update_flag = {}
        /\ \A wgt \in GroupTypes : grouptypes[wgt].type_update_flag = {})

\* C30: the i-th manipulator of the 3D candidate list (counting from 0) is
\* rendered with base id i*256; for every list index i and part p in 0..255
\* the id i*256+p decodes to index i and part p; and the manipulator a 3D
\* pick returns is the member of the candidate list its hit id names, with
\* the part of that id.
C30_HitIdRoundTrips ==
    (last.op = "highlight_find" /\ Candidates # <<>>)
    => (/\ \A i \in DOMAIN Candidates :
              /\ SelectionBase(i) = (i - 1) * 256
              /\ \A p \in 0..255 :
                    /\ HitIndex(SelectionBase(i) + p) = i - 1
                    /\ HitPart(SelectionBase(i) + p) = p
        /\ find.coarse # NoPick
           => LET id == FindIntersected3DIntern(IF find.refined # NoPick
                                                THEN find.refined
                                                ELSE find.coarse)
              IN /\ find.mpr \in Range(Candidates)
                 /\ find.mpr = Candidates[HitIndex(id) + 1]
                 /\ find.part = HitPart(id))

C30_Witness ==
    /\ last.op = "highlight_find"
    /\ Len(Candidates) >= 2
    /\ find.coarse = [idx |-> 2, part |-> 255]
    /\ find.refined = NoPick
    /\ find.mpr = Candidates[2]
    /\ find.part = 255

\* C31: in every state reached by select_all calls interleaved with changes
\* of poll results and hidden flags, a manipulator has its selection bit set
\* if and only if it is an entry of the selected array; after
\* select_all(DESELECT) no manipulator has the bit set.
C31_BitIffSelected ==
    ~crashed
    => (/\ \A m \in Mprs : SelectBit(m) <=> m \in Range(mmap_context.selected)
        /\ (last.op = "select_all" /\ last.action = SEL_DESELECT)
           => \A m \in Mprs : ~SelectBit(m))

\* C32: select_all(SELECT) on a map none of whose manipulators the hash
\* collects (no group passes its poll, or none is selectable) is safe: the
\* process survives, the selection stays empty, the highlight is the one
\* before the call and the call returns "no change".
C32_SelectOnEmptySafe ==
    [][(/\ last'.op = "select_all" /\ last'.action = SEL_SELECT
        /\ HashNew(Cur, TRUE) = <<>>
        /\ mmap_context.selected_len = 0)
       => (/\ ~crashed'
           /\ mmap_context'.selected = <<>>
           /\ mmap_context'.selected_len = 0
           /\ mmap_context'.highlight = mmap_context.highlight
           /\ ~last'.ret)]_vars

\* C33: in every draw call the update or draw callback of a manipulator runs
\* only if its group is visible in the draw step of the call and passes its
\* visibility predicate; the modal manipulator of the modal-only path
\* included.
C33_CallbacksOnlyForVisible ==
    (last.op = "draw" /\ draw.mmap = "map")
    => \A i \in DOMAIN out :
          out[i].ev \in ManipulatorCallbacks
          => /\ GroupIsVisibleInDrawstep(parent_mgroup(out[i].m), draw.drawstep)
             /\ GroupIsVisible(parent_mgroup(out[i].m))

====
